---- MODULE Spec2Model ----
(***************************************************************************)
(* Model of the two utilities of the repository:                           *)
(*   quantize_openelm.py : the 8-bit tensor quantizer                      *)
(*   inspect_weights.py  : the weight index inspector                      *)
(*                                                                         *)
(* Numbers.  A tensor is a record [dtype, shape, data, den]: element i has *)
(* the value data[i] / den.  Every arithmetic operation on a float tensor  *)
(* gives the exact result rounded to the significand of the tensor's dtype *)
(* (11 bits for float16, 8 for bfloat16), nearest, ties to even.  The      *)
(* exponent range is not modelled (no overflow, no underflow).  float32    *)
(* tensors occur as passthrough tensors only: products of 24-bit           *)
(* significands do not fit the integers of the model checker.              *)
(***************************************************************************)
EXTENDS Integers, Sequences, FiniteSets, TLC

VARIABLES
    \* ---- quantize_openelm.py ----
    exists,             \* exists[i]: shard file i is present on disk
    shards,             \* shards[i]: content of shard file i, a sequence of <<name, tensor>>
    outFile,            \* content of model-q8_0.safetensors on disk
    outFileBefore,      \* its content when the run started
    stage,              \* position of the run in quantize_openelm_model
    fileIdx,            \* index in model_files of the loop that is running
    loadCalls,          \* shard indices handed to mx.load, in call order
    all_weights,        \* dict name -> tensor (line 42)
    order,              \* insertion order of the keys of all_weights
    total_bytes,        \* total_size_mb, in bytes
    quantized_weights,  \* dict name -> tensor (line 61)
    quantized_bytes,    \* quantized_size_mb, in bytes
    pos,                \* number of entries of all_weights processed by the loop of line 77
    zeroDivs,           \* keys whose (weight - zero_point) / scale was evaluated with scale = 0
    report,             \* lines printed so far
    result,             \* outcome of quantize_openelm_model()
    exitCode,           \* exit status of the process
    \* ---- loop body of lines 78-106 applied to one tensor ----
    qphase, qweight, qout,
    \* ---- inspect_weights.py ----
    ipc, index_exists, weight_map, models_dir, printed

qvars == <<exists, shards, outFile, outFileBefore, stage, fileIdx, loadCalls,
           all_weights, order, total_bytes, quantized_weights, quantized_bytes,
           pos, zeroDivs, report, result, exitCode>>
pvars == <<qphase, qweight, qout>>
ivars == <<ipc, index_exists, weight_map, models_dir, printed>>
vars  == <<qvars, pvars, ivars>>

----------------------------------------------------------------------------
(* Bounds of the model *)

MaxTensors == 2      \* tensors in the two shard files together
MaxVal     == 5      \* element values of the single-tensor runs are in -MaxVal..MaxVal
MaxKeys    == 3      \* keys of weight_map

----------------------------------------------------------------------------
(* Generic helpers *)

Min(S) == CHOOSE x \in S : \A y \in S : x <= y
Max(S) == CHOOSE x \in S : \A y \in S : x >= y
Range(s) == {s[i] : i \in 1..Len(s)}

RECURSIVE Product(_)
Product(s) == IF s = <<>> THEN 1 ELSE Head(s) * Product(Tail(s))

\* Python dicts: a function from the keys present, d[k] = v adds or replaces.
EmptyDict == [k \in {} |-> k]
DictSet(d, k, v) == [x \in (DOMAIN d) \cup {k} |-> IF x = k THEN v ELSE d[x]]

----------------------------------------------------------------------------
(* Tensors *)

FloatDtypes == {"float32", "float16", "bfloat16"}

ItemSize(dtype) ==
    CASE dtype = "float32"  -> 4
      [] dtype = "int32"    -> 4
      [] dtype = "float16"  -> 2
      [] dtype = "bfloat16" -> 2
      [] dtype = "int8"     -> 1

Tensor(dtype, shape, data) == [dtype |-> dtype, shape |-> shape, data |-> data, den |-> 1]

\* tensor.nbytes
NBytes(t) == ItemSize(t.dtype) * Product(t.shape)

\* A rank-0 array of the given dtype holding num / den.
Scalar(dtype, num, den) == [dtype |-> dtype, shape |-> <<>>, data |-> <<num>>, den |-> den]

----------------------------------------------------------------------------
(* Quantization of one tensor, lines 78-94 *)

QuantLevels == 255
Int8Offset  == 128

\* line 78
IsQuantizable(weight) == weight.dtype \in FloatDtypes /\ Len(weight.shape) >= 2

\* lines 81-82: mx.min / mx.max over the whole tensor (numerators; the
\* denominator is weight.den)
weight_min(weight) == Min(Range(weight.data))
weight_max(weight) == Max(Range(weight.data))

\* Fractions num / den with den > 0.
Rat(n, d) == [num |-> n, den |-> d]
RECURSIVE GCD(_, _)
GCD(a, b) == IF b = 0 THEN a ELSE GCD(b, a % b)
LCM(a, b) == (a \div GCD(a, b)) * b
\* the fraction in lowest terms
Norm(x) ==
    LET g == GCD(IF x.num < 0 THEN 0 - x.num ELSE x.num, x.den)
    IN  Rat(x.num \div g, x.den \div g)
RatAdd(a, b) ==
    LET l == LCM(a.den, b.den)
    IN  Rat(a.num * (l \div a.den) + b.num * (l \div b.den), l)
RatNeg(a) == Rat(0 - a.num, a.den)
RatSub(a, b) == RatAdd(a, RatNeg(b))
RatDiv(a, b) ==
    IF b.num > 0 THEN Norm(Rat(a.num * b.den, a.den * b.num))
    ELSE Norm(Rat((0 - a.num) * b.den, a.den * (0 - b.num)))
RatLeq(a, b) ==
    LET l == LCM(a.den, b.den)
    IN  a.num * (l \div a.den) <= b.num * (l \div b.den)

\* round to the nearest integer, halves to the even one
Floor(x) == x.num \div x.den
RoundHalfEven(x) ==
    LET f == Floor(x)
        twice == 2 * (x.num - f * x.den)
    IN  IF twice < x.den THEN f
        ELSE IF twice > x.den THEN f + 1
        ELSE IF f % 2 = 0 THEN f ELSE f + 1

\* Bits of significand of the floating dtypes.
Precision(dtype) ==
    CASE dtype = "float32"  -> 24
      [] dtype = "float16"  -> 11
      [] dtype = "bfloat16" -> 8

RECURSIVE Pow2(_)
Pow2(n) == IF n = 0 THEN 1 ELSE 2 * Pow2(n - 1)

\* n / d > 0 rounded to p bits of significand; the value is (n / d) * down / up
RECURSIVE RoundSig(_, _, _, _, _)
RoundSig(p, n, d, up, down) ==
    IF n < Pow2(p - 1) * d THEN RoundSig(p, 2 * n, d, 2 * up, down)
    ELSE IF n >= Pow2(p) * d THEN RoundSig(p, n, 2 * d, up, 2 * down)
    ELSE Norm(Rat(RoundHalfEven(Rat(n, d)) * down, up))

\* The float of the dtype nearest to x.
Fl(dtype, x) ==
    IF x.num = 0 THEN Rat(0, 1)
    ELSE IF x.num > 0 THEN RoundSig(Precision(dtype), x.num, x.den, 1, 1)
    ELSE RatNeg(RoundSig(Precision(dtype), 0 - x.num, x.den, 1, 1))

\* line 83: scale = (weight_max - weight_min) / 255.0
scale(weight) ==
    LET dt == weight.dtype
        range == Fl(dt, RatSub(Rat(weight_max(weight), weight.den),
                               Rat(weight_min(weight), weight.den)))
        sc == Fl(dt, RatDiv(range, Rat(QuantLevels, 1)))
    IN  Scalar(dt, sc.num, sc.den)

\* line 84: zero_point = weight_min
zero_point(weight) == Scalar(weight.dtype, weight_min(weight), weight.den)

\* line 83 evaluates to zero
ScaleIsZero(weight) == scale(weight).data[1] = 0

\* line 87: (w - zero_point) / scale for one element w of a tensor whose
\* scale is not zero
quantized_float(w, weight) ==
    LET dt == weight.dtype
        zp == zero_point(weight)
        sc == scale(weight)
        diff == Fl(dt, RatSub(Rat(w, weight.den), Rat(zp.data[1], zp.den)))
    IN  Fl(dt, RatDiv(diff, Rat(sc.data[1], sc.den)))

\* mx.clip(x, lo, hi)
Clip(x, lo, hi) ==
    IF x.num < lo * x.den THEN Rat(lo, 1)
    ELSE IF x.num > hi * x.den THEN Rat(hi, 1)
    ELSE x

\* x - 128
SubOffset(dtype, x) == Fl(dtype, RatSub(x, Rat(Int8Offset, 1)))

\* astype(mx.int8) of an in-range float: the fraction part is dropped
\* (truncation toward zero), then the value is kept in 8 bits, two's complement
TruncToInt(x) == IF x.num >= 0 THEN x.num \div x.den ELSE -((-x.num) \div x.den)
WrapInt8(n) == ((n + 128) % 256) - 128
AsTypeInt8(x) == WrapInt8(TruncToInt(x))

\* lines 87-89 for one element of a tensor whose scale is not zero
QuantizeElement(w, weight) ==
    AsTypeInt8(SubOffset(weight.dtype, Clip(quantized_float(w, weight), 0, QuantLevels)))

\* With scale = 0 every element of line 87 is 0/0 = NaN (the tensor is
\* constant), which clip and the subtraction keep; converting NaN to int8 is
\* undefined in the array library's C++ cast.  The outcomes considered are
\* the ones common hardware gives: 0 (saturating conversions, and x86's
\* 0x80000000 cut to 8 bits) and the saturated extremes.
NaNCastOutcomes == {0 - 128, 0, 127}

\* lines 87-89: the int8 tensor; nanCast is the value NaN is converted to
quantized_int8(weight, nanCast) ==
    [dtype |-> "int8",
     shape |-> weight.shape,
     data  |-> [i \in 1..Len(weight.data) |->
                  IF ScaleIsZero(weight) THEN nanCast
                  ELSE QuantizeElement(weight.data[i], weight)],
     den   |-> 1]

\* f"{key}.scale", f"{key}.zero_point"
ScaleKey(key) == key \o ".scale"
ZeroPointKey(key) == key \o ".zero_point"

\* lines 78-106: the body of the loop for one entry of all_weights
ProcessEntry(qw, key, weight, nanCast) ==
    IF IsQuantizable(weight)
    THEN DictSet(DictSet(DictSet(qw, key, quantized_int8(weight, nanCast)),
                         ScaleKey(key), scale(weight)),
                 ZeroPointKey(key), zero_point(weight))
    ELSE DictSet(qw, key, weight)

\* lines 98-99 and 106: bytes added to quantized_size_mb
EntryBytes(weight, nanCast) ==
    IF IsQuantizable(weight)
    THEN NBytes(quantized_int8(weight, nanCast)) + NBytes(scale(weight))
         + NBytes(zero_point(weight))
    ELSE NBytes(weight)

----------------------------------------------------------------------------
(* quantize_openelm.py: files and inputs *)

ModelDir == "KickbackApp/Resources/Models"
model_files == <<"model-00001-of-00002.safetensors", "model-00002-of-00002.safetensors">>
NumFiles == Len(model_files)
FilePath(i) == ModelDir \o "/" \o model_files[i]
OutputPath == ModelDir \o "/" \o "model-q8_0.safetensors"

\* Tensor names and tensors the shard files are filled with.
Names == {"w", "w.scale", "w.zero_point"}
TensorPool ==
    { Tensor("bfloat16", <<2, 2>>, <<0, 1, 7, 7>>),  \* quantizable
      Tensor("float16", <<1, 2>>, <<3, 3>>),         \* quantizable, constant
      Tensor("float32", <<2>>, <<5, 9>>),            \* rank 1
      Tensor("int32", <<1, 2>>, <<4, 6>>) }          \* not floating

\* A shard file holds named tensors, each name once, in file order.
ShardContents ==
    { s \in UNION {[1..n -> Names \X TensorPool] : n \in 0..MaxTensors} :
        \A i, j \in 1..Len(s) : i # j => s[i][1] # s[j][1] }

\* Content of the output file on disk.
AbsentFile == [state |-> "absent", tensors |-> EmptyDict]
OldFile == [state |-> "old", tensors |-> EmptyDict]
WrittenFile(qw) == [state |-> "written", tensors |-> qw]
PartialFile == [state |-> "partial", tensors |-> EmptyDict]

NoExit == 0 - 1

\* The inspector before it runs (its variables while the quantizer runs).
InspectorIdle ==
    /\ ipc = "idle"
    /\ index_exists = FALSE
    /\ weight_map = {}
    /\ models_dir = [present |-> FALSE, files |-> {}]
    /\ printed = <<>>

\* The single-tensor run before it runs.
SingleIdle ==
    /\ qphase = "idle"
    /\ qweight = Tensor("int8", <<>>, <<0>>)
    /\ qout = EmptyDict

\* The quantizer before it runs.
QuantizerIdle ==
    /\ stage = "not_started"
    /\ fileIdx = 0
    /\ loadCalls = <<>>
    /\ all_weights = EmptyDict
    /\ order = <<>>
    /\ total_bytes = 0
    /\ quantized_weights = EmptyDict
    /\ quantized_bytes = 0
    /\ pos = 0
    /\ zeroDivs = {}
    /\ report = <<>>
    /\ result = "none"
    /\ exitCode = NoExit

Init ==
    /\ exists \in [1..NumFiles -> BOOLEAN]
    /\ shards \in [1..NumFiles -> ShardContents]
    /\ \A i \in 1..NumFiles : ~exists[i] => shards[i] = <<>>
    /\ Len(shards[1]) + Len(shards[2]) <= MaxTensors
    /\ outFile \in {AbsentFile, OldFile}
    /\ outFileBefore = outFile
    /\ QuantizerIdle
    /\ SingleIdle
    /\ InspectorIdle

----------------------------------------------------------------------------
(* quantize_openelm.py: main and quantize_openelm_model *)

Say(line) == report' = Append(report, line)
SayAll(lines) == report' = report \o lines

\* lines 132-133 and 25-32
Start ==
    /\ stage = "not_started"
    /\ stage' = "validating"
    /\ fileIdx' = 1
    /\ SayAll(<<"OpenELM-3B Quantization Tool", "Starting OpenELM-3B quantization to 8-bit...",
                "Model directory: " \o ModelDir>>)
    /\ UNCHANGED <<exists, shards, outFile, outFileBefore, loadCalls, all_weights, order,
                   total_bytes, quantized_weights, quantized_bytes, pos, zeroDivs,
                   result, exitCode>>

\* line 37: file_path.exists()
PathExistsDirOnly(i) == TRUE
PathExists(i) == exists[i]

\* lines 35-39, one iteration; after the last one lines 42-43
Validate ==
    /\ stage = "validating"
    /\ IF ~PathExists(fileIdx)
       THEN /\ Say("Error: " \o FilePath(fileIdx) \o " not found")
            /\ result' = "False"
            /\ stage' = "failed"
            /\ UNCHANGED fileIdx
       ELSE /\ UNCHANGED <<report, result>>
            /\ IF fileIdx < NumFiles
               THEN fileIdx' = fileIdx + 1 /\ UNCHANGED stage
               ELSE fileIdx' = 1 /\ stage' = "loading"
    /\ UNCHANGED <<exists, shards, outFile, outFileBefore, loadCalls, all_weights, order,
                   total_bytes, quantized_weights, quantized_bytes, pos, zeroDivs, exitCode>>

\* lines 51-52: all_weights[key] = tensor for every item of one shard
RECURSIVE MergeKeepFirst(_, _)
MergeKeepFirst(d, items) ==
    IF items = <<>> THEN d
    ELSE MergeKeepFirst(IF Head(items)[1] \in DOMAIN d THEN d
                        ELSE DictSet(d, Head(items)[1], Head(items)[2]), Tail(items))
RECURSIVE Merge(_, _)
Merge(d, items) ==
    IF items = <<>> THEN d
    ELSE Merge(DictSet(d, Head(items)[1], Head(items)[2]), Tail(items))

\* insertion order of a dict: a new key goes last, a replaced one keeps its place
RECURSIVE MergeOrder(_, _)
MergeOrder(keys, items) ==
    IF items = <<>> THEN keys
    ELSE MergeOrder(IF Head(items)[1] \in Range(keys) THEN keys
                    ELSE Append(keys, Head(items)[1]), Tail(items))

\* lines 55-56 summed over one shard
RECURSIVE ItemsBytes(_)
ItemsBytes(items) ==
    IF items = <<>> THEN 0 ELSE NBytes(Head(items)[2]) + ItemsBytes(Tail(items))

\* lines 45-58, one iteration with mx.load succeeding; after the last one
\* lines 58-75
LoadOk ==
    /\ stage = "loading"
    /\ exists[fileIdx]
    /\ loadCalls' = Append(loadCalls, fileIdx)
    /\ all_weights' = Merge(all_weights, shards[fileIdx])
    /\ order' = MergeOrder(order, shards[fileIdx])
    /\ total_bytes' = total_bytes + ItemsBytes(shards[fileIdx])
    /\ IF fileIdx < NumFiles
       THEN /\ fileIdx' = fileIdx + 1
            /\ Say("Loading " \o model_files[fileIdx] \o "...")
            /\ UNCHANGED stage
       ELSE /\ fileIdx' = fileIdx
            /\ SayAll(<<"Loading " \o model_files[fileIdx] \o "...", "Loaded tensors",
                        "Quantizing weights to 8-bit...", "Data types", "Tensor dimensions">>)
            /\ stage' = "quantizing"
    /\ UNCHANGED <<exists, shards, outFile, outFileBefore, quantized_weights,
                   quantized_bytes, pos, zeroDivs, result, exitCode>>

\* line 50 raising (a file that is absent or cannot be read as a tensor
\* container): nothing catches it, it leaves quantize_openelm_model and main
LoadFailSkipsShard ==
    /\ stage = "loading"
    /\ loadCalls' = Append(loadCalls, fileIdx)
    /\ Say("Loading " \o model_files[fileIdx] \o "...")
    /\ IF fileIdx < NumFiles
       THEN fileIdx' = fileIdx + 1 /\ UNCHANGED stage
       ELSE fileIdx' = fileIdx /\ stage' = "quantizing"
    /\ UNCHANGED <<exists, shards, outFile, outFileBefore, all_weights, order, total_bytes,
                   quantized_weights, quantized_bytes, pos, zeroDivs, result, exitCode>>
LoadFail ==
    /\ stage = "loading"
    /\ loadCalls' = Append(loadCalls, fileIdx)
    /\ Say("Loading " \o model_files[fileIdx] \o "...")
    /\ result' = "raised"
    /\ stage' = "failed"
    /\ UNCHANGED <<exists, shards, outFile, outFileBefore, fileIdx, all_weights, order,
                   total_bytes, quantized_weights, quantized_bytes, pos, zeroDivs, exitCode>>

\* str.endswith
EndsWith(s, suffix) ==
    /\ Len(s) >= Len(suffix)
    /\ SubSeq(s, Len(s) - Len(suffix) + 1, Len(s)) = suffix

\* line 101: the tensors of quantized_weights that are not named as side-cars
PrintLimit == 5
PrintsEntry(qw) ==
    Cardinality({k \in DOMAIN qw : ~EndsWith(k, ".scale") /\ ~EndsWith(k, ".zero_point")})
        <= PrintLimit

\* lines 77-106, one iteration
QuantizeEntry ==
    /\ stage = "quantizing"
    /\ pos < Len(order)
    /\ LET key == order[pos + 1]
           weight == all_weights[key]
           divides == IsQuantizable(weight)
       IN  \E nanCast \in (IF divides /\ ScaleIsZero(weight) THEN NaNCastOutcomes ELSE {0}) :
             /\ quantized_weights' = ProcessEntry(quantized_weights, key, weight, nanCast)
             /\ quantized_bytes' = quantized_bytes + EntryBytes(weight, nanCast)
             /\ zeroDivs' = IF divides /\ ScaleIsZero(weight)
                            THEN zeroDivs \cup {key} ELSE zeroDivs
             /\ IF divides /\ PrintsEntry(quantized_weights')
                THEN Say("  " \o key \o ": " \o weight.dtype \o " -> int8")
                ELSE UNCHANGED report
    /\ pos' = pos + 1
    /\ UNCHANGED <<exists, shards, outFile, outFileBefore, stage, fileIdx, loadCalls,
                   all_weights, order, total_bytes, result, exitCode>>

\* lines 108-113: the division of line 109 raises ZeroDivisionError when no
\* byte was loaded, and nothing catches it
QuantizeEnd ==
    /\ stage = "quantizing"
    /\ pos = Len(order)
    /\ IF total_bytes = 0
       THEN /\ Say("Quantized tensors")
            /\ result' = "raised"
            /\ stage' = "failed"
       ELSE /\ SayAll(<<"Quantized tensors", "Size reduction",
                        "Saving quantized model to " \o OutputPath \o "...">>)
            /\ stage' = "saving"
            /\ UNCHANGED result
    /\ UNCHANGED <<exists, shards, outFile, outFileBefore, fileIdx, loadCalls, all_weights,
                   order, total_bytes, quantized_weights, quantized_bytes, pos, zeroDivs,
                   exitCode>>

\* What the calls of the try block (lines 116 and 119) can raise.
SaveExceptions == {"OSError", "RuntimeError", "ValueError"}
StatExceptions == {"OSError"}

\* line 126: except Exception
ExceptCatchesOSErrorOnly(exc) == exc = "OSError"
ExceptCatches(exc) == exc \in SaveExceptions \cup StatExceptions \cup {"ZeroDivisionError"}

\* lines 126-128, or the exception leaving the function
HandleSaveException(exc) ==
    /\ stage' = "failed"
    /\ IF ExceptCatches(exc)
       THEN /\ Say("Error saving quantized model: " \o exc)
            /\ result' = "False"
       ELSE /\ result' = "raised"
            /\ UNCHANGED report

QuantizerFrame ==
    UNCHANGED <<exists, shards, outFileBefore, fileIdx, loadCalls, all_weights, order,
                total_bytes, quantized_weights, quantized_bytes, pos, zeroDivs, exitCode>>

\* lines 116-124
SaveOk ==
    /\ stage = "saving"
    /\ outFile' = WrittenFile(quantized_weights)
    /\ SayAll(<<"Quantized model saved successfully!", "File size", "Memory savings">>)
    /\ result' = "True"
    /\ stage' = "done"
    /\ QuantizerFrame

\* line 116 raising: the file is untouched or left partially written
SaveRaises ==
    /\ stage = "saving"
    /\ \E exc \in SaveExceptions :
         /\ outFile' \in {outFile, PartialFile}
         /\ HandleSaveException(exc)
    /\ QuantizerFrame

\* line 116 done, line 119 raising
StatRaises ==
    /\ stage = "saving"
    /\ \E exc \in StatExceptions :
         /\ outFile' = WrittenFile(quantized_weights)
         /\ HandleSaveException(exc)
    /\ QuantizerFrame

\* lines 135-141, or the traceback of an exception nothing caught
MainFinish ==
    /\ stage \in {"done", "failed"}
    /\ exitCode = NoExit
    /\ CASE result = "True" ->
              /\ SayAll(<<"Quantization completed successfully!",
                          "Your iOS app can now use the 8-bit quantized model",
                          "The app will automatically detect and use model-q8_0.safetensors">>)
              /\ exitCode' = 0
         [] result = "False" ->
              /\ Say("Quantization failed. Please check the error messages above.")
              /\ exitCode' = 1
         [] OTHER ->
              /\ Say("Traceback (most recent call last):")
              /\ exitCode' = 1
    /\ UNCHANGED <<exists, shards, outFile, outFileBefore, stage, fileIdx, loadCalls,
                   all_weights, order, total_bytes, quantized_weights, quantized_bytes,
                   pos, zeroDivs, result>>

Next ==
    \/ Start /\ UNCHANGED <<pvars, ivars>>
    \/ Validate /\ UNCHANGED <<pvars, ivars>>
    \/ LoadOk /\ UNCHANGED <<pvars, ivars>>
    \/ LoadFail /\ UNCHANGED <<pvars, ivars>>
    \/ QuantizeEntry /\ UNCHANGED <<pvars, ivars>>
    \/ QuantizeEnd /\ UNCHANGED <<pvars, ivars>>
    \/ SaveOk /\ UNCHANGED <<pvars, ivars>>
    \/ SaveRaises /\ UNCHANGED <<pvars, ivars>>
    \/ StatRaises /\ UNCHANGED <<pvars, ivars>>
    \/ MainFinish /\ UNCHANGED <<pvars, ivars>>

Spec == Init /\ [][Next]_vars

----------------------------------------------------------------------------
(* The loop body of lines 78-106 on one tensor *)

SingleKey == "w"
SingleDtypes == {"float16", "bfloat16", "int32"}
\* Element values: the small ones, and two whose difference no 8-bit
\* significand holds.
SingleValues == ((0 - MaxVal)..MaxVal) \cup {0 - 137, 168}
SingleShapes == {<<1, 3>>, <<3>>}

InitSingle ==
    /\ qphase = "loaded"
    /\ \E dtype \in SingleDtypes, shape \in SingleShapes,
          data \in [1..3 -> SingleValues] :
         qweight = Tensor(dtype, shape, data)
    /\ qout = EmptyDict
    /\ exists = [i \in 1..NumFiles |-> FALSE]
    /\ shards = [i \in 1..NumFiles |-> <<>>]
    /\ outFile = AbsentFile
    /\ outFileBefore = AbsentFile
    /\ QuantizerIdle
    /\ InspectorIdle

QuantizeSingle ==
    /\ qphase = "loaded"
    /\ \E nanCast \in (IF IsQuantizable(qweight) /\ ScaleIsZero(qweight)
                       THEN NaNCastOutcomes ELSE {0}) :
         qout' = ProcessEntry(EmptyDict, SingleKey, qweight, nanCast)
    /\ qphase' = "quantized"
    /\ UNCHANGED qweight

NextSingle == QuantizeSingle /\ UNCHANGED <<qvars, ivars>>

SpecSingle == InitSingle /\ [][NextSingle]_vars

----------------------------------------------------------------------------
(* inspect_weights.py *)

UpperChars == "ABCDEFGHIJKLMNOPQRSTUVWXYZ"
LowerChars == "abcdefghijklmnopqrstuvwxyz"
\* the characters of the keys, in code point order
OrderedChars == "-.0123456789ABCDEFGHIJKLMNOPQRSTUVWXYZ_abcdefghijklmnopqrstuvwxyz"

CharAt(s, i) == SubSeq(s, i, i)
IndexIn(chars, c) ==
    IF \E i \in 1..Len(chars) : CharAt(chars, i) = c
    THEN CHOOSE i \in 1..Len(chars) : CharAt(chars, i) = c
    ELSE 0

\* str.lower
LowerChar(c) == IF IndexIn(UpperChars, c) > 0 THEN CharAt(LowerChars, IndexIn(UpperChars, c)) ELSE c
RECURSIVE LowerFrom(_, _)
LowerFrom(s, i) == IF i > Len(s) THEN "" ELSE LowerChar(CharAt(s, i)) \o LowerFrom(s, i + 1)
LowerIdentity(s) == s
Lower(s) == LowerFrom(s, 1)

\* sub in s
Contains(s, sub) ==
    \E i \in 1..(Len(s) - Len(sub) + 1) : SubSeq(s, i, i + Len(sub) - 1) = sub

\* a < b for str: by code points, a proper prefix first
RECURSIVE StrLessFrom(_, _, _)
StrLessFrom(a, b, i) ==
    IF i > Len(b) THEN FALSE
    ELSE IF i > Len(a) THEN TRUE
    ELSE LET ca == IndexIn(OrderedChars, CharAt(a, i))
             cb == IndexIn(OrderedChars, CharAt(b, i))
         IN  IF ca # cb THEN ca < cb ELSE StrLessFrom(a, b, i + 1)
StrLess(a, b) == StrLessFrom(a, b, 1)

\* sorted(...)
RECURSIVE Sorted(_)
Sorted(S) ==
    IF S = {} THEN <<>>
    ELSE LET m == CHOOSE x \in S : \A y \in S : x = y \/ StrLess(x, y)
         IN  <<m>> \o Sorted(S \ {m})

\* s[:n]
Take(s, n) == SubSeq(s, 1, IF Len(s) < n THEN Len(s) ELSE n)
ListLimit == 10

\* lines 19, 25, 31, 37: [k for k in weight_map.keys() if label in k.lower()]
Matching(label) == {k \in weight_map : Contains(Lower(k), label)}

\* Keys the index is filled with.  weight_map is modelled by its key set: the
\* script never reads the values.
KeyPool ==
    { "model.embed.weight",
      "model.norm.weight",
      "model.layer.0.transformer.attn.weight",
      "Transformer.Token_Embeddings.weight",
      "final_NORM.bias",
      "lm_head.weight" }
\* More norm keys than the listing shows.
LayerNormKeys ==
    {"layers." \o n \o ".norm" :
        n \in {"0", "1", "2", "3", "4", "5", "6", "7", "8", "9", "10", "11"}}
DirFiles == {"model-q8_0.safetensors", "config.json"}

\* One block of output: a heading, the numbers printed in it, the names listed.
Block(head, nums, names) == [head |-> head, nums |-> nums, names |-> names]

InitInspect ==
    /\ ipc = "start"
    /\ index_exists \in BOOLEAN
    /\ weight_map \in {m \in SUBSET KeyPool : Cardinality(m) <= MaxKeys}
                      \cup {LayerNormKeys \cup m : m \in {n \in SUBSET KeyPool : Cardinality(n) <= 1}}
    /\ ~index_exists => weight_map = {}
    /\ \E present \in BOOLEAN, files \in SUBSET DirFiles :
         /\ index_exists => present
         /\ index_exists \/ ~present => files = {}
         /\ models_dir = [present |-> present, files |-> files]
    /\ printed = <<>>
    /\ exists = [i \in 1..NumFiles |-> FALSE]
    /\ shards = [i \in 1..NumFiles |-> <<>>]
    /\ outFile = AbsentFile
    /\ outFileBefore = AbsentFile
    /\ QuantizerIdle
    /\ SingleIdle

\* lines 9-16
InspectOpen ==
    /\ ipc = "start"
    /\ index_exists
    /\ printed' = Append(printed, Block("Available weights in the model:", <<>>, <<>>))
    /\ ipc' = "embed"
    /\ UNCHANGED <<index_exists, weight_map, models_dir>>

\* lines 19-22
PrintEmbedding ==
    /\ ipc = "embed"
    /\ LET embedding_weights == Matching("embed")
       IN  printed' = Append(printed, Block("Embedding weights",
                                            <<Cardinality(embedding_weights)>>,
                                            Sorted(embedding_weights)))
    /\ ipc' = "token"
    /\ UNCHANGED <<index_exists, weight_map, models_dir>>

\* lines 25-28
PrintToken ==
    /\ ipc = "token"
    /\ LET token_weights == Matching("token")
       IN  printed' = Append(printed, Block("Token weights",
                                            <<Cardinality(token_weights)>>,
                                            Sorted(token_weights)))
    /\ ipc' = "norm"
    /\ UNCHANGED <<index_exists, weight_map, models_dir>>

\* lines 31-34
PrintNorm ==
    /\ ipc = "norm"
    /\ LET norm_weights == Matching("norm")
       IN  printed' = Append(printed, Block("Norm weights (first 10):", <<>>,
                                            Take(Sorted(norm_weights), ListLimit)))
    /\ ipc' = "transformer"
    /\ UNCHANGED <<index_exists, weight_map, models_dir>>

\* lines 37-40
PrintTransformer ==
    /\ ipc = "transformer"
    /\ LET transformer_weights == Matching("transformer")
       IN  printed' = Append(printed, Block("Transformer weights (first 10):", <<>>,
                                            Take(Sorted(transformer_weights), ListLimit)))
    /\ ipc' = "total"
    /\ UNCHANGED <<index_exists, weight_map, models_dir>>

\* line 42
PrintTotal ==
    /\ ipc = "total"
    /\ printed' = Append(printed, Block("Total weights", <<Cardinality(weight_map)>>, <<>>))
    /\ ipc' = "done"
    /\ UNCHANGED <<index_exists, weight_map, models_dir>>

\* lines 44-53
InspectFallback ==
    /\ ipc = "start"
    /\ ~index_exists
    /\ printed' = <<Block("Index file not found", <<>>, <<>>),
                    Block("Looking for safetensors files...", <<>>, <<>>),
                    IF models_dir.present
                    THEN Block("Found safetensors files",  <<>>,
                               Sorted({f \in models_dir.files : EndsWith(f, ".safetensors")}))
                    ELSE Block("Models directory not found", <<>>, <<>>)>>
    /\ ipc' = "done"
    /\ UNCHANGED <<index_exists, weight_map, models_dir>>

NextInspect ==
    \/ InspectOpen /\ UNCHANGED <<qvars, pvars>>
    \/ PrintEmbedding /\ UNCHANGED <<qvars, pvars>>
    \/ PrintToken /\ UNCHANGED <<qvars, pvars>>
    \/ PrintNorm /\ UNCHANGED <<qvars, pvars>>
    \/ PrintTransformer /\ UNCHANGED <<qvars, pvars>>
    \/ PrintTotal /\ UNCHANGED <<qvars, pvars>>
    \/ InspectFallback /\ UNCHANGED <<qvars, pvars>>

SpecInspect == InitInspect /\ [][NextInspect]_vars

----------------------------------------------------------------------------
(* Properties *)

Missing == {i \in 1..NumFiles : ~exists[i]}
NotFoundLine(i) == "Error: " \o FilePath(i) \o " not found"
SavingLine == "Saving quantized model to " \o OutputPath \o "..."
SuccessLines ==
    {"Quantized model saved successfully!", "File size", "Memory savings",
     "Quantization completed successfully!",
     "Your iOS app can now use the 8-bit quantized model",
     "The app will automatically detect and use model-q8_0.safetensors"}
ShardNames(i) == {shards[i][j][1] : j \in 1..Len(shards[i])}
ShardTensor(i, name) ==
    shards[i][CHOOSE j \in 1..Len(shards[i]) : shards[i][j][1] = name][2]
AfterQuantizing == stage \in {"saving", "done"}

\* C1: when a shard file is missing, no shard is ever handed to the loader
\* (not even an existing one listed before the missing one), the run never
\* gets past the existence check, the output file stays as it was, and once
\* the run has failed the first missing path has been reported, the function
\* has returned False and the process exits with status 1.
C1_MissingShardAborts ==
    Missing # {} =>
        /\ loadCalls = <<>>
        /\ outFile = outFileBefore
        /\ stage \in {"not_started", "validating", "failed"}
        /\ stage = "failed" =>
              /\ result = "False"
              /\ NotFoundLine(Min(Missing)) \in Range(report)
        /\ exitCode \in {NoExit, 1}
        /\ exitCode = 1 => stage = "failed"

C1_Witness ==
    /\ exists[1] /\ ~exists[2] /\ shards[1] # <<>>
    /\ exitCode = 1
    /\ outFile = OldFile

\* C2 (as claimed): after the quantizing stage every quantized input tensor k
\* has k as an int8 tensor, and k.scale and k.zero_point as the scalars
\* computed from it, whatever the input names are.
C2_SidecarsOfEveryQuantized ==
    AfterQuantizing =>
        \A k \in DOMAIN all_weights :
            IsQuantizable(all_weights[k]) =>
                /\ k \in DOMAIN quantized_weights
                /\ quantized_weights[k].dtype = "int8"
                /\ quantized_weights[k].shape = all_weights[k].shape
                /\ ScaleKey(k) \in DOMAIN quantized_weights
                /\ quantized_weights[ScaleKey(k)] = scale(all_weights[k])
                /\ ZeroPointKey(k) \in DOMAIN quantized_weights
                /\ quantized_weights[ZeroPointKey(k)] = zero_point(all_weights[k])

\* C3 (as claimed): every input tensor of rank < 2 or of a non-floating dtype
\* is in the final output mapping under its name, unchanged, whatever else
\* the input contains.
C3_PassthroughUnchanged ==
    AfterQuantizing =>
        \A k \in DOMAIN all_weights :
            ~IsQuantizable(all_weights[k]) =>
                /\ k \in DOMAIN quantized_weights
                /\ quantized_weights[k] = all_weights[k]

SingleQuantized ==
    /\ qphase = "quantized"
    /\ qweight.dtype \in {"float32", "float16", "bfloat16"}
    /\ Len(qweight.shape) >= 2
    /\ Max(Range(qweight.data)) # Min(Range(qweight.data))
StoredScale == Rat(qout[ScaleKey(SingleKey)].data[1], qout[ScaleKey(SingleKey)].den)
StoredZeroPoint ==
    Rat(qout[ZeroPointKey(SingleKey)].data[1], qout[ZeroPointKey(SingleKey)].den)
RatMulInt(a, n) == Rat(a.num * n, a.den)
RatAbs(a) == Rat(IF a.num < 0 THEN 0 - a.num ELSE a.num, a.den)
\* (q + 128) * scale + zero_point
Dequantized(q) == RatAdd(RatMulInt(StoredScale, q + 128), StoredZeroPoint)

\* C4 (as claimed): for a quantizable tensor with weight_max # weight_min,
\* every element w and its stored int8 value q satisfy
\* |(q + 128) * scale + zero_point - w| <= scale.
C4_RoundTripWithinScale ==
    SingleQuantized =>
        \A i \in 1..Len(qweight.data) :
            RatLeq(RatAbs(RatSub(Dequantized(qout[SingleKey].data[i]),
                                 Rat(qweight.data[i], qweight.den))),
                   StoredScale)

ClipInt(n, lo, hi) == IF n < lo THEN lo ELSE IF n > hi THEN hi ELSE n
RoundAndClip(x, lo, hi) == ClipInt(RoundHalfEven(x), lo, hi)
ReferenceQuantized(w) == RoundAndClip(quantized_float(w, qweight), 0, 255) - 128

\* C5 (as claimed): every stored int8 value of a quantizable tensor with a
\* non-zero scale is round_and_clip((w - zero_point) / scale, 0, 255) - 128.
C5_MatchesReference ==
    SingleQuantized =>
        \A i \in 1..Len(qweight.data) :
            qout[SingleKey].data[i] = ReferenceQuantized(qweight.data[i])

SaveFailed == stage = "failed" /\ SavingLine \in Range(report)

\* C6: when the save step fails (the write or the size read-back raises), the
\* function has reported the cause and returned False (no exception leaves
\* it), no success message was printed, and the process exit status is 1.
C6_SaveFailureCaught ==
    SaveFailed =>
        /\ result = "False"
        /\ \E exc \in SaveExceptions \cup StatExceptions :
             ("Error saving quantized model: " \o exc) \in Range(report)
        /\ Range(report) \cap SuccessLines = {}
        /\ exitCode \in {NoExit, 1}

C6_Witness ==
    /\ SaveFailed
    /\ exitCode = 1
    /\ outFile.state = "written"

Terminal == {"done", "failed"}
StageSuccessor ==
    { <<"not_started", "validating">>, <<"validating", "loading">>,
      <<"loading", "quantizing">>, <<"quantizing", "saving">>, <<"saving", "done">> }

StageRank(st) ==
    CASE st = "not_started" -> 0
      [] st = "validating" -> 1
      [] st = "loading" -> 2
      [] st = "quantizing" -> 3
      [] st = "saving" -> 4
      [] st \in Terminal -> 5

\* How far the run is: stage, then loop index, then whether the process exited.
Progress ==
    <<StageRank(stage), fileIdx, pos, IF exitCode = NoExit THEN 0 ELSE 1>>
LexLess(a, b) ==
    \E i \in 1..Len(a) : a[i] < b[i] /\ \A j \in 1..(i - 1) : a[j] = b[j]

C7_StageStep ==
    /\ LexLess(Progress, Progress')
    /\ \/ stage' = stage
       \/ <<stage, stage'>> \in StageSuccessor
       \/ stage \in {"validating", "loading", "quantizing", "saving"} /\ stage' = "failed"
    /\ stage \in Terminal =>
         UNCHANGED <<stage, result, loadCalls, all_weights, order, quantized_weights,
                     pos, outFile>>
    /\ stage # "loading" => loadCalls' = loadCalls
    /\ stage # "quantizing" => quantized_weights' = quantized_weights
    /\ stage # "saving" => outFile' = outFile

C7_DoneOnlyAfterAll ==
    stage = "done" =>
        /\ Missing = {}
        /\ loadCalls = <<1, 2>>
        /\ \A i \in 1..NumFiles : ShardNames(i) \subseteq DOMAIN all_weights
        /\ pos = Len(order)
        /\ Range(order) = DOMAIN all_weights
        /\ DOMAIN all_weights \subseteq DOMAIN quantized_weights
        /\ outFile = WrittenFile(quantized_weights)
        /\ result = "True"

\* The loop indices are inside their loops: a run that has not ended can
\* take its next step.
C7_NotStuck ==
    /\ stage \in {"validating", "loading"} => fileIdx \in 1..NumFiles
    /\ stage = "quantizing" => pos <= Len(order)

\* C7: a run moves through not-started, validating-inputs, loading,
\* quantizing, saving in this order only, each stage entered at most once and
\* every step moving the run forward; from a failure the run goes to failed
\* and no later stage acts; after failed or done nothing more is done; done
\* is reached only with all shards validated and loaded, all tensors
\* processed and the file saved.
C7_LinearStages ==
    [][C7_StageStep /\ C7_DoneOnlyAfterAll' /\ C7_NotStuck']_vars

C7_Witness ==
    /\ stage = "done"
    /\ exitCode = 0
    /\ Len(order) >= 2

\* The categories each key of KeyPool belongs to, by reading the key.
CategoriesOf(k) ==
    CASE k = "model.embed.weight" -> {"embed"}
      [] k = "model.norm.weight" -> {"norm"}
      [] k = "model.layer.0.transformer.attn.weight" -> {"transformer"}
      [] k = "Transformer.Token_Embeddings.weight" -> {"transformer", "token", "embed"}
      [] k = "final_NORM.bias" -> {"norm"}
      [] k = "lm_head.weight" -> {}
      [] k \in LayerNormKeys -> {"norm"}
CountOf(c) == Cardinality({k \in weight_map : c \in CategoriesOf(k)})
HeadOf(c) ==
    CASE c = "embed" -> "Embedding weights"
      [] c = "token" -> "Token weights"
      [] c = "norm" -> "Norm weights (first 10):"
      [] c = "transformer" -> "Transformer weights (first 10):"
BlockOf(head) == printed[CHOOSE i \in 1..Len(printed) : printed[i].head = head]
InspectDone == ipc = "done" /\ index_exists

\* C8 (as claimed): for each of the four categories the count printed for it
\* is the number of keys whose lowercase form contains the label, and the
\* printed total is the number of keys.
C8_CountPrintedPerCategory ==
    InspectDone =>
        /\ \A c \in {"embed", "token", "norm", "transformer"} :
             BlockOf(HeadOf(c)).nums = <<CountOf(c)>>
        /\ BlockOf("Total weights").nums = <<Cardinality(weight_map)>>

\* the names are in increasing order and no matching key left out is smaller
ListsFirstSorted(names, c) ==
    /\ \A i, j \in 1..Len(names) : i < j => StrLess(names[i], names[j])
    /\ \A k \in weight_map :
         c \in CategoriesOf(k) /\ k \notin Range(names) =>
             \A i \in 1..Len(names) : StrLess(names[i], k)

\* C8 (amended): a count is printed for embed and token only, and it is the
\* number of keys whose lowercase form contains the label; for norm and
\* transformer no count is printed, the names listed are the first 10 (all,
\* when fewer) of the sorted matching keys; the printed total is the number
\* of keys.
C8_CountsPrinted ==
    InspectDone =>
        /\ \A c \in {"embed", "token"} :
             /\ BlockOf(HeadOf(c)).nums = <<CountOf(c)>>
             /\ Len(BlockOf(HeadOf(c)).names) = CountOf(c)
        /\ \A c \in {"norm", "transformer"} :
             /\ BlockOf(HeadOf(c)).nums = <<>>
             /\ Len(BlockOf(HeadOf(c)).names) = (IF CountOf(c) < 10 THEN CountOf(c) ELSE 10)
        /\ \A c \in {"embed", "token", "norm", "transformer"} :
             /\ \A k \in Range(BlockOf(HeadOf(c)).names) :
                  k \in weight_map /\ c \in CategoriesOf(k)
             /\ ListsFirstSorted(BlockOf(HeadOf(c)).names, c)
        /\ BlockOf("Total weights").nums = <<Cardinality(weight_map)>>

C8_Witness ==
    /\ InspectDone
    /\ LayerNormKeys \subseteq weight_map
    /\ "Transformer.Token_Embeddings.weight" \in weight_map
    /\ BlockOf("Embedding weights").nums = <<1>>
    /\ BlockOf("Token weights").nums = <<1>>
    /\ Len(BlockOf("Norm weights (first 10):").names) = 10
    /\ BlockOf("Total weights").nums = <<13>>

\* C9: after the loading stage the combined mapping has exactly the names of
\* the two shards, a name of the second shard holds the second shard's
\* tensor, any other name the first shard's, and a name present in both
\* raised no error.
C9_LastShardWins ==
    stage \in {"quantizing", "saving", "done"} =>
        /\ DOMAIN all_weights = ShardNames(1) \cup ShardNames(2)
        /\ \A k \in ShardNames(2) : all_weights[k] = ShardTensor(2, k)
        /\ \A k \in ShardNames(1) \ ShardNames(2) : all_weights[k] = ShardTensor(1, k)

C9_Witness ==
    /\ stage = "quantizing"
    /\ \E k \in ShardNames(1) \cap ShardNames(2) : ShardTensor(1, k) # ShardTensor(2, k)

\* C10 (as claimed): the quantizer never evaluates (w - zero_point) / scale
\* with a zero scale.
C10_NoDivisionByZeroScale == zeroDivs = {}

====
